---------------------------- MODULE Spec2Model ----------------------------
(***************************************************************************)
(* Model of app.py, the "Portfolio Command Center" dashboard script.      *)
(*                                                                         *)
(* Numbers.  The script computes in binary floating point on closing       *)
(* prices that the model takes to be whole numbers.  The model holds a      *)
(* number the script computes as the exact quotient [n |-> a, d |-> b],     *)
(* d > 0, of the whole numbers it comes from, and fractional thresholds     *)
(* (0.15, 0.92, ...) in hundredths.  Every comparison the script makes has  *)
(* the same outcome on the exact quotient as on the double: a quotient of   *)
(* such numbers equals a threshold only where the double hits the           *)
(* threshold's double, and is otherwise further from it than the rounding   *)
(* error.  round(x, 2) is different: when the exact quotient lies halfway   *)
(* between two hundredths the double may lie on either side, so there the   *)
(* model rounds the double itself, computed limb by limb as the script      *)
(* computes it (see "Doubles").                                             *)
(***************************************************************************)
EXTENDS Integers, Sequences, FiniteSets, TLC

(***************************************************************************)
(* STRATEGY CONFIG (app.py lines 23-35), in hundredths.                    *)
(***************************************************************************)
SELL_L1 == 15
SELL_L2 == 20
SELL_L3 == 30

SELL_L1_PCT == 25
SELL_L2_PCT == 25

BUY_ZONE_LOW == 92
BUY_ZONE_HIGH == 97
DEEP_BUY == 90
NEAR_DMA == 3

NASDAQ_EXTREME == 12

\* The rolling window and minimum history length (the literal 200 of the guards
\* and of rolling(200)), and the row count of head(10).
DMA_WINDOW == 200
TOP_N == 10

(***************************************************************************)
(* Exact quotients.                                                        *)
(***************************************************************************)
Frac(a, b) == [n |-> a, d |-> b]

\* float(n) for a whole number n
Whole(n) == Frac(n, 1)

RECURSIVE GCD(_, _)
GCD(a, b) == IF b = 0 THEN a ELSE GCD(b, a % b)

\* a / b in lowest terms, for whole numbers a and b > 0
Lowest(a, b) ==
    LET g == GCD(IF a < 0 THEN -a ELSE a, b)
    IN  Frac(a \div g, b \div g)

\* a - b, a / b for b > 0, q * k
FracSub(a, b) == Lowest(a.n * b.d - b.n * a.d, a.d * b.d)
FracDiv(a, b) == Lowest(a.n * b.d, a.d * b.n)
FracMulInt(q, k) == Lowest(q.n * k, q.d)

\* q >= c/100, q <= c/100, q > c/100 for a quotient q and a threshold c in hundredths
FracGE(q, c) == q.n * 100 >= c * q.d
FracLE(q, c) == q.n * 100 <= c * q.d
FracGT(q, c) == q.n * 100 > c * q.d

\* a < b * c/100 for quotients a, b and a threshold c in hundredths
FracLTScaled(a, b, c) == a.n * b.d * 100 < b.n * c * a.d

\* q <= k for a whole number k
FracLEInt(q, k) == q.n <= k * q.d

FracAbs(q) == Frac(IF q.n < 0 THEN -q.n ELSE q.n, q.d)

Max2(a, b) == IF a >= b THEN a ELSE b
Min2(a, b) == IF a <= b THEN a ELSE b

(***************************************************************************)
(* Doubles.  A natural number of any size is a sequence of 15-bit limbs,   *)
(* least significant first, with no zero limb at the top.  A double is     *)
(* [neg, m, e], standing for (-1)^neg * m * 2^e with m <= 2^53; the        *)
(* numbers of the script are far from the overflow and underflow ranges.   *)
(* Every operation gives the double nearest to the exact result, ties to   *)
(* the even mantissa, as IEEE 754 arithmetic does.                         *)
(***************************************************************************)
LimbBase == 2^15

RECURSIVE BN(_)
BN(n) == IF n = 0 THEN << >> ELSE <<n % LimbBase>> \o BN(n \div LimbBase)

RECURSIVE BNVal(_)
BNVal(a) == IF a = << >> THEN 0 ELSE a[1] + LimbBase * BNVal(Tail(a))

BNTrim(a) ==
    LET used == {j \in 1..Len(a) : a[j] # 0}
    IN  IF used = {} THEN << >>
        ELSE SubSeq(a, 1, CHOOSE j \in used : \A k \in used : k <= j)

Limb(a, j) == IF j <= Len(a) THEN a[j] ELSE 0

BNLess(a, b) ==
    IF Len(a) # Len(b) THEN Len(a) < Len(b)
    ELSE LET differ == {j \in 1..Len(a) : a[j] # b[j]}
         IN  /\ differ # {}
             /\ LET top == CHOOSE j \in differ : \A k \in differ : k <= j
                IN  a[top] < b[top]

RECURSIVE BNAddFrom(_, _, _, _)
BNAddFrom(a, b, j, carry) ==
    IF j > Len(a) /\ j > Len(b)
      THEN (IF carry = 0 THEN << >> ELSE <<carry>>)
      ELSE LET s == Limb(a, j) + Limb(b, j) + carry
           IN  <<s % LimbBase>> \o BNAddFrom(a, b, j + 1, s \div LimbBase)

BNAdd(a, b) == BNAddFrom(a, b, 1, 0)

\* a - b for a >= b
RECURSIVE BNSubFrom(_, _, _, _)
BNSubFrom(a, b, j, borrow) ==
    IF j > Len(a) THEN << >>
    ELSE LET s == a[j] - Limb(b, j) - borrow
         IN  <<IF s < 0 THEN s + LimbBase ELSE s>>
               \o BNSubFrom(a, b, j + 1, IF s < 0 THEN 1 ELSE 0)

BNSub(a, b) == BNTrim(BNSubFrom(a, b, 1, 0))

\* a * c for a whole number 0 <= c < 2^15
RECURSIVE BNMulFrom(_, _, _, _)
BNMulFrom(a, c, j, carry) ==
    IF j > Len(a) THEN (IF carry = 0 THEN << >> ELSE <<carry>>)
    ELSE LET s == a[j] * c + carry
         IN  <<s % LimbBase>> \o BNMulFrom(a, c, j + 1, s \div LimbBase)

BNMulSmall(a, c) == BNTrim(BNMulFrom(a, c, 1, 0))

\* a * 2^k
BNShl(a, k) ==
    IF a = << >> THEN << >>
    ELSE [j \in 1..(k \div 15) |-> 0] \o BNMulSmall(a, 2^(k % 15))

\* floor(a / 2^k) and a mod 2^k
BNShr(a, k) ==
    LET drop == k \div 15
        s    == k % 15
    IN  BNTrim([j \in 1..Max2(0, Len(a) - drop) |->
                  (Limb(a, j + drop) \div 2^s) + (Limb(a, j + drop + 1) % 2^s) * 2^(15 - s)])

BNLow(a, k) ==
    LET keep == k \div 15
    IN  BNTrim([j \in 1..Min2(Len(a), keep + 1) |->
                  IF j <= keep THEN a[j] ELSE a[j] % 2^(k % 15)])

\* the number of bits of a limb, and of a number
SmallBitLen(n) == Cardinality({b \in 0..14 : 2^b <= n})
BNBitLen(a) == IF a = << >> THEN 0 ELSE 15 * (Len(a) - 1) + SmallBitLen(a[Len(a)])

BNOdd(a) == Limb(a, 1) % 2 = 1

\* the next limb of a quotient, for a divisor whose top limb has its top bit
\* set: the estimate from the top limbs is at most two too large
QuotientLimb(r, d) ==
    LET m    == Len(d)
        est  == Min2(LimbBase - 1, (Limb(r, m + 1) * LimbBase + Limb(r, m)) \div d[m])
        fits(c) == ~BNLess(r, BNMulSmall(d, c))
    IN  IF fits(est) THEN est ELSE IF fits(est - 1) THEN est - 1 ELSE est - 2

\* long division, one limb of n at a time from the top
RECURSIVE BNDivFrom(_, _, _, _)
BNDivFrom(n, d, k, st) ==
    IF k = 0 THEN [q |-> BNTrim(st.q), r |-> st.r]
    ELSE LET r2 == BNTrim(<<n[k]>> \o st.r)
             c  == QuotientLimb(r2, d)
         IN  BNDivFrom(n, d, k - 1,
                       [q |-> <<c>> \o st.q, r |-> BNSub(r2, BNMulSmall(d, c))])

\* floor(n / d), and whether the division leaves no remainder
BNDiv(n, d) ==
    LET sh == 15 - SmallBitLen(d[Len(d)])
        st == BNDivFrom(BNShl(n, sh), BNShl(d, sh), Len(BNShl(n, sh)),
                        [q |-> << >>, r |-> << >>])
    IN  [q |-> st.q, exact |-> st.r = << >>]

\* a / 2^k rounded to the nearest whole number, ties to even; sticky tells
\* that a stands for a value slightly above a
BNRoundShr(a, k, sticky) ==
    IF k = 0 THEN a
    ELSE LET q    == BNShr(a, k)
             r    == BNLow(a, k)
             half == BNShl(<<1>>, k - 1)
             up   == \/ BNLess(half, r)
                     \/ (r = half /\ (sticky \/ BNOdd(q)))
         IN  IF up THEN BNAdd(q, <<1>>) ELSE q

Double(neg, m, e) == [neg |-> neg, m |-> m, e |-> e]

\* the double nearest to m * 2^e (or to a value slightly above it when sticky)
RoundToDouble(neg, m, e, sticky) ==
    LET k == Max2(0, BNBitLen(m) - 53)
    IN  Double(neg, BNRoundShr(m, k, sticky), e + k)

FromInt(n) == Double(n < 0, BN(IF n < 0 THEN -n ELSE n), 0)

\* a / b
FDiv(a, b) ==
    IF a.m = << >> THEN Double(FALSE, << >>, 0)
    ELSE LET s  == Max2(0, 55 + BNBitLen(b.m) - BNBitLen(a.m))
             dm == BNDiv(BNShl(a.m, s), b.m)
         IN  RoundToDouble(a.neg # b.neg, dm.q, a.e - b.e - s, ~dm.exact)

\* a - b for a, b >= 0
FSub(a, b) ==
    LET e0 == Min2(a.e, b.e)
        x  == BNShl(a.m, a.e - e0)
        y  == BNShl(b.m, b.e - e0)
    IN  IF BNLess(x, y) THEN RoundToDouble(TRUE, BNSub(y, x), e0, FALSE)
        ELSE RoundToDouble(FALSE, BNSub(x, y), e0, FALSE)

\* a * c for a whole number 0 < c < 2^15
FMulInt(a, c) == RoundToDouble(a.neg, BNMulSmall(a.m, c), a.e, FALSE)

\* the double the script holds for a quotient of two whole numbers: a close
\* float(n) is Whole(n), the mean of a window is its sum / its length
DoubleOf(q) == FDiv(FromInt(q.n), FromInt(q.d))

\* (price - dma) / dma * 100 as lines 131 and 193 compute it
dist_pct_double(price, dma) ==
    FMulInt(FDiv(FSub(DoubleOf(price), DoubleOf(dma)), DoubleOf(dma)), 100)

\* Python's round(x, 2) of a double, in hundredths: the hundredth nearest to
\* the value the double holds, ties to the even hundredth
PyRound2(x) ==
    LET n == BNMulSmall(x.m, 100)
        h == IF x.e >= 0 THEN BNShl(n, x.e) ELSE BNRoundShr(n, 0 - x.e, FALSE)
    IN  IF x.neg THEN 0 - BNVal(h) ELSE BNVal(h)

\* round(x, 2), in hundredths, of the double x the script holds for the exact
\* quotient q.  Off a tie x is much nearer to q than q is to a tie, and the
\* hundredth nearest to q is the answer; on a tie the double decides.
Round2(q, x) ==
    LET a    == IF q.n < 0 THEN -q.n ELSE q.n
        rest == (a % q.d) * 100
        h    == (a \div q.d) * 100 + rest \div q.d
        r2   == 2 * (rest % q.d)
    IN  IF r2 = q.d THEN PyRound2(x)
        ELSE IF q.n < 0 THEN 0 - (IF r2 > q.d THEN h + 1 ELSE h)
        ELSE (IF r2 > q.d THEN h + 1 ELSE h)

(***************************************************************************)
(* STRATEGY ENGINE (app.py lines 71-87).  price and dma are quotients,     *)
(* sell_pct is in hundredths.                                              *)
(***************************************************************************)
Decision(a, s, r) == [action |-> a, sell_pct |-> s, reason |-> r]

\* the decision with its first threshold tested strictly (dist > SELL_L3)
csp_decision_strict_l3(price, dma) ==
    LET dist == FracDiv(FracSub(price, dma), dma)
    IN  IF FracGT(dist, SELL_L3)
          THEN Decision("HOLD CORE", 0, "Extreme extension")
        ELSE IF FracGE(dist, SELL_L2)
          THEN Decision("SELL PARTIAL", SELL_L2_PCT, ">20% above 200 DMA")
        ELSE IF FracGE(dist, SELL_L1)
          THEN Decision("SELL PARTIAL", SELL_L1_PCT, ">15% above 200 DMA")
        ELSE IF FracLE(FracAbs(dist), NEAR_DMA)
          THEN Decision("SMALL BUY", 0, "Near 200 DMA")
        ELSE IF FracGE(FracDiv(price, dma), BUY_ZONE_LOW)
                /\ FracLE(FracDiv(price, dma), BUY_ZONE_HIGH)
          THEN Decision("ACCUMULATE", 0, "Inside virtual CSP buy zone")
        ELSE IF FracLTScaled(price, dma, DEEP_BUY)
          THEN Decision("AGGRESSIVE BUY", 0, "Deep discount to 200 DMA")
        ELSE Decision("WAIT", 0, "No edge")

\* the decision with the buy zone tested before the near-average band
csp_decision_zone_first(price, dma) ==
    LET dist == FracDiv(FracSub(price, dma), dma)
    IN  IF FracGE(dist, SELL_L3)
          THEN Decision("HOLD CORE", 0, "Extreme extension")
        ELSE IF FracGE(dist, SELL_L2)
          THEN Decision("SELL PARTIAL", SELL_L2_PCT, ">20% above 200 DMA")
        ELSE IF FracGE(dist, SELL_L1)
          THEN Decision("SELL PARTIAL", SELL_L1_PCT, ">15% above 200 DMA")
        ELSE IF FracGE(FracDiv(price, dma), BUY_ZONE_LOW)
                /\ FracLE(FracDiv(price, dma), BUY_ZONE_HIGH)
          THEN Decision("ACCUMULATE", 0, "Inside virtual CSP buy zone")
        ELSE IF FracLE(FracAbs(dist), NEAR_DMA)
          THEN Decision("SMALL BUY", 0, "Near 200 DMA")
        ELSE IF FracLTScaled(price, dma, DEEP_BUY)
          THEN Decision("AGGRESSIVE BUY", 0, "Deep discount to 200 DMA")
        ELSE Decision("WAIT", 0, "No edge")

csp_equivalent_decision(price, dma) ==
    LET dist == FracDiv(FracSub(price, dma), dma)
    IN  IF FracGE(dist, SELL_L3)
          THEN Decision("HOLD CORE", 0, "Extreme extension")
        ELSE IF FracGE(dist, SELL_L2)
          THEN Decision("SELL PARTIAL", SELL_L2_PCT, ">20% above 200 DMA")
        ELSE IF FracGE(dist, SELL_L1)
          THEN Decision("SELL PARTIAL", SELL_L1_PCT, ">15% above 200 DMA")
        ELSE IF FracLE(FracAbs(dist), NEAR_DMA)
          THEN Decision("SMALL BUY", 0, "Near 200 DMA")
        ELSE IF FracGE(FracDiv(price, dma), BUY_ZONE_LOW)
                /\ FracLE(FracDiv(price, dma), BUY_ZONE_HIGH)
          THEN Decision("ACCUMULATE", 0, "Inside virtual CSP buy zone")
        ELSE IF FracLTScaled(price, dma, DEEP_BUY)
          THEN Decision("AGGRESSIVE BUY", 0, "Deep discount to 200 DMA")
        ELSE Decision("WAIT", 0, "No edge")

(***************************************************************************)
(* Rotation score (app.py lines 170-183 and 197-208).  dist is the         *)
(* distance in percent, a quotient.                                        *)
(***************************************************************************)
\* the price sub-score with its bands open at the top (dist < -5, < 0, ...)
score_price_open(dist) ==
    IF dist.n < -5 * dist.d THEN 40
    ELSE IF dist.n < 0 THEN 30
    ELSE IF dist.n < 5 * dist.d THEN 20
    ELSE IF dist.n < 10 * dist.d THEN 10
    ELSE 0

score_price(dist) ==
    IF FracLEInt(dist, -5) THEN 40
    ELSE IF FracLEInt(dist, 0) THEN 30
    ELSE IF FracLEInt(dist, 5) THEN 20
    ELSE IF FracLEInt(dist, 10) THEN 10
    ELSE 0

score_action(a) ==
    CASE a = "AGGRESSIVE BUY" -> 25
      [] a = "ACCUMULATE" -> 20
      [] a = "SMALL BUY" -> 15
      [] a = "WAIT" -> 5
      [] OTHER -> 0

\* nasdaq_dist > NASDAQ_EXTREME, the test of lines 120 and 204
market_extended(nd) == FracGT(nd, NASDAQ_EXTREME)

growth_score(g) == IF g >= 15 THEN 15 ELSE 5
exposure_score(e) == IF e >= 70 THEN 15 ELSE 5

\* lines 197-202: the sum of the four sub-scores
raw_score(dist_pct, action, growth, exposure) ==
    score_price(dist_pct) + score_action(action)
      + growth_score(growth) + exposure_score(exposure)

\* lines 204-205: the market penalty
penalised_score(raw, nd) == IF market_extended(nd) THEN raw - 15 ELSE raw

\* the clamp without its lower bound
clamp_score_upper_only(s) == Min2(100, s)

\* line 208
clamp_score(s) == Max2(0, Min2(100, s))

rotation_score(dist_pct, action, growth, exposure, nd) ==
    clamp_score(penalised_score(raw_score(dist_pct, action, growth, exposure), nd))

(***************************************************************************)
(* Price frames.  A frame returned by yf.download is held by its Close     *)
(* column, run-length encoded: a sequence of runs [v |-> close, c |-> n]   *)
(* standing for n consecutive samples of value v.  NoFrame is the None     *)
(* that fetch_nasdaq_dist guards against.                                  *)
(***************************************************************************)
NoFrame == [kind |-> "None"]
Frame(runs) == [kind |-> "frame", close |-> runs]

RECURSIVE RunsLen(_)
RunsLen(runs) ==
    IF runs = << >> THEN 0
    ELSE runs[Len(runs)].c + RunsLen(SubSeq(runs, 1, Len(runs) - 1))

\* len(data) and data.empty
df_len(data) == RunsLen(data.close)
df_empty(data) == df_len(data) = 0

\* float(close.iloc[-1])
close_last(data) == Whole(data.close[Len(data.close)].v)

\* the sum of the last w samples of a series of at least w samples
RECURSIVE SumLast(_, _)
SumLast(runs, w) ==
    IF w = 0 \/ runs = << >> THEN 0
    ELSE LET r == runs[Len(runs)]
             k == Min2(r.c, w)
         IN  k * r.v + SumLast(SubSeq(runs, 1, Len(runs) - 1), w - k)

\* close.rolling(200).mean().iloc[-1] for a series of at least 200 samples
\* (a shorter series gives NaN; both callers skip it before this point)
rolling_mean_last(data) == Frac(SumLast(data.close, DMA_WINDOW), DMA_WINDOW)

\* the skip guard off by one: a history of exactly 200 samples is skipped too
too_short_inclusive(data) == df_empty(data) \/ df_len(data) <= DMA_WINDOW

\* the skip guard of lines 111 and 187
too_short(data) == df_empty(data) \/ df_len(data) < DMA_WINDOW

(***************************************************************************)
(* DATA LOADERS (app.py lines 40-66).                                      *)
(***************************************************************************)
\* str.upper() on the tickers the input files use
Upper(t) ==
    CASE t = "jnj" -> "JNJ"
      [] t = "nvda" -> "NVDA"
      [] OTHER -> t

\* str.lower() on the sector names the input files use
Lower(s) ==
    CASE s = "Healthcare" -> "healthcare"
      [] s = "HEALTHCARE" -> "healthcare"
      [] s = "Technology" -> "technology"
      [] OTHER -> s

\* load_portfolio / load_top100: df["ticker"] = df["ticker"].str.upper()
load_csv(rows) == [j \in 1..Len(rows) |-> [rows[j] EXCEPT !.ticker = Upper(@)]]

\* fetch_nasdaq_dist with 1.0 as the value of an unavailable index
fetch_nasdaq_dist_default_one(data) ==
    IF data = NoFrame THEN Frac(1, 1)
    ELSE IF too_short(data) THEN Frac(1, 1)
    ELSE LET price == close_last(data)
             dma   == rolling_mean_last(data)
         IN  FracDiv(FracSub(price, dma), dma)

\* fetch_nasdaq_dist
fetch_nasdaq_dist(data) ==
    IF data = NoFrame THEN Frac(0, 1)
    ELSE IF too_short(data) THEN Frac(0, 1)
    ELSE LET price == close_last(data)
             dma   == rolling_mean_last(data)
         IN  FracDiv(FracSub(price, dma), dma)

(***************************************************************************)
(* One pass of each loop body.                                             *)
(***************************************************************************)
\* action.startswith("SELL") on the six action labels
startswith_SELL(a) == a \in {"SELL PARTIAL"}

\* the portfolio suffix without the test of the action
portfolio_reason_any_action(dec, nd) ==
    IF market_extended(nd)
      THEN <<dec.reason, " | Market-wide extension">>
      ELSE <<dec.reason>>

\* lines 120-121; a reason is held as the sequence of its parts
portfolio_reason(dec, nd) ==
    IF market_extended(nd) /\ startswith_SELL(dec.action)
      THEN <<dec.reason, " | Market-wide extension">>
      ELSE <<dec.reason>>

\* lines 114-134: the row appended for a portfolio row with enough history;
\* the three rounded columns are in hundredths
portfolio_row(row, data, nd) ==
    LET price == close_last(data)
        dma   == rolling_mean_last(data)
        dec   == csp_equivalent_decision(price, dma)
    IN  [Ticker |-> row.ticker,
         Sector |-> row.sector,
         SharesHeld |-> row.shares,
         SharesToSell |-> row.shares * dec.sell_pct,
         AvgCost |-> row.avg_cost,
         CurrentPrice |-> Round2(price, DoubleOf(price)),
         DMA200 |-> Round2(dma, DoubleOf(dma)),
         DistPct |-> Round2(FracMulInt(FracDiv(FracSub(price, dma), dma), 100),
                            dist_pct_double(price, dma)),
         Action |-> dec.action,
         Reason |-> portfolio_reason(dec, nd)]

\* lines 204-206
rotation_reason(dec, nd) ==
    IF market_extended(nd)
      THEN <<dec.reason, " | Market overheated">>
      ELSE <<dec.reason>>

\* lines 190-218: the row appended for a candidate with enough history
rotation_row(row, data, nd) ==
    LET price    == close_last(data)
        dma      == rolling_mean_last(data)
        dist_pct == FracMulInt(FracDiv(FracSub(price, dma), dma), 100)
        dec      == csp_equivalent_decision(price, dma)
    IN  [Ticker |-> row.ticker,
         Company |-> row.company_name,
         Sector |-> row.sector,
         RotationScore |-> rotation_score(dist_pct, dec.action, row.growth_3y,
                                          row.ai_exposure_score, nd),
         Action |-> dec.action,
         DistPct |-> Round2(dist_pct, dist_pct_double(price, dma)),
         Reason |-> rotation_reason(dec, nd)]

(***************************************************************************)
(* The rotation table (app.py lines 220-230).                              *)
(***************************************************************************)
RECURSIVE SortedOrders(_, _)
\* every arrangement of the rows indexed by S in non-increasing Rotation Score
SortedOrders(rows, S) ==
    IF S = {} THEN {<< >>}
    ELSE LET top == {j \in S : \A k \in S : rows[j].RotationScore >= rows[k].RotationScore}
         IN  UNION {{<<rows[j]>> \o t : t \in SortedOrders(rows, S \ {j})} : j \in top}

\* sort_values("Rotation Score", ascending=False): the default sort is not
\* stable, so rows of equal score may come out in any order
sort_values(rows) == SortedOrders(rows, DOMAIN rows)

in_universe(r, u) ==
    CASE u = "AI Focus" -> Lower(r.Sector) # "healthcare"
      [] u = "Healthcare Focus" -> Lower(r.Sector) = "healthcare"
      [] OTHER -> TRUE

\* lines 222-225
filter_universe(df, u) == SelectSeq(df, LAMBDA r : in_universe(r, u))

\* lines 227-228
head(df, top10) == IF top10 THEN SubSeq(df, 1, Min2(TOP_N, Len(df))) ELSE df

\* the table truncated before it is filtered
rotation_table_head_first(sorted, u, top10) == filter_universe(head(sorted, top10), u)

\* lines 222-228 on one sorted frame
rotation_table(sorted, u, top10) == head(filter_universe(sorted, u), top10)

(***************************************************************************)
(* Inputs of one run of the script: the two CSV files, the widget state    *)
(* and what the price provider answers for each symbol.                    *)
(***************************************************************************)
MaxPortfolio == 2
MaxFree == 2
MaxCandidates == 12

\* a series of len >= 200 samples whose last close is p and whose trailing
\* 200-sample mean is m (0 < p < 2m); samples before the window are 1
FullSeries(len, p, m) ==
    Frame((IF len > DMA_WINDOW THEN <<[v |-> 1, c |-> len - DMA_WINDOW]>> ELSE << >>)
          \o <<[v |-> m, c |-> DMA_WINDOW - 2], [v |-> 2 * m - p, c |-> 1], [v |-> p, c |-> 1]>>)

\* a series of len samples that closes at base on all days but the last, at p
StepSeries(len, base, p) == Frame(<<[v |-> base, c |-> len - 1], [v |-> p, c |-> 1]>>)

ShortSeries(len, p) == Frame(<<[v |-> p, c |-> len]>>)
EmptyFrame == Frame(<< >>)

\* last close / 200-day average pairs; 67 over 160 is 58.125 % below, a tie in
\* hundredths
Quotes == {<<67, 160>>, <<91, 100>>, <<101, 100>>, <<130, 100>>}

TickerFrames ==
    {EmptyFrame, ShortSeries(DMA_WINDOW - 1, 85)}
      \cup {FullSeries(DMA_WINDOW, q[1], q[2]) : q \in Quotes}
      \cup {FullSeries(DMA_WINDOW + 1, 97, 100)}
      \cup {StepSeries(DMA_WINDOW, 100, 130), StepSeries(DMA_WINDOW, 100, 101)}

IndexFrames ==
    {NoFrame, EmptyFrame, ShortSeries(DMA_WINDOW - 1, 130),
     FullSeries(DMA_WINDOW, 112, 100), FullSeries(DMA_WINDOW + 1, 113, 100),
     Frame(<<[v |-> 9, c |-> 3], [v |-> 10, c |-> 196], [v |-> 11, c |-> 1]>>)}

PortfolioFile(n) ==
    SubSeq(<<[ticker |-> "AAPL", sector |-> "Technology", shares |-> 10, avg_cost |-> 90],
             [ticker |-> "jnj", sector |-> "Healthcare", shares |-> 7, avg_cost |-> 120],
             [ticker |-> "MSFT", sector |-> "Technology", shares |-> 3, avg_cost |-> 80]>>,
           1, n)

CandidateNames ==
    <<"nvda", "JNJ", "MSFT", "PFE", "AMD", "MRK", "GOOG", "LLY",
      "META", "ABBV", "AVGO", "TSM", "ORCL", "UNH", "CRM", "AMGN">>

Profiles ==
    {[sector |-> "Technology", growth_3y |-> 20, ai_exposure_score |-> 80],
     [sector |-> "HEALTHCARE", growth_3y |-> 10, ai_exposure_score |-> 60]}

Candidate(j, pr) ==
    [ticker |-> CandidateNames[j], company_name |-> CandidateNames[j],
     sector |-> pr.sector, growth_3y |-> pr.growth_3y,
     ai_exposure_score |-> pr.ai_exposure_score]

Symbols == {Upper(CandidateNames[j]) : j \in DOMAIN CandidateNames} \cup {"AAPL"}

\* the frame every symbol not under study answers with
DefaultFeed == [t \in Symbols |-> FullSeries(DMA_WINDOW, 101, 100)]

VARIABLES
    files,        \* the rows of data/portfolio.csv and data/portfolio_top100.csv
    feed,         \* what yf.download answers per ticker (fetch_price_data)
    index_frame,  \* what yf.download answers for ^IXIC
    universe,     \* the "Universe" radio
    show_top10,   \* the "Show Top 10 Only" checkbox
    pc,           \* where the script is
    i,            \* the row the running loop is at
    portfolio, top100_df, nasdaq_dist,
    results,      \* the list both loops append to (re-bound at line 168)
    df_port, df_rot,
    calls,        \* the invocations of csp_equivalent_decision so far
    call, ret     \* a direct call of one of the two scoring functions

inputs == <<files, feed, index_frame, universe, show_top10>>
vars == <<files, feed, index_frame, universe, show_top10, pc, i, portfolio,
          top100_df, nasdaq_dist, results, df_port, df_rot, calls, call, ret>>

ScriptStart ==
    /\ pc = "load" /\ i = 0
    /\ portfolio = << >> /\ top100_df = << >> /\ nasdaq_dist = Frac(0, 1)
    /\ results = << >> /\ df_port = << >> /\ df_rot = << >> /\ calls = << >>
    /\ call = [fn |-> "none"] /\ ret = [fn |-> "none"]

\* runs that vary the portfolio and the market index
InitPortfolio ==
    /\ \E n \in 0..MaxPortfolio :
         /\ files = [portfolio |-> PortfolioFile(n), top100 |-> <<Candidate(1, CHOOSE pr \in Profiles : pr.sector = "Technology")>>]
         /\ \E f \in [{Upper(PortfolioFile(n)[j].ticker) : j \in 1..n} -> TickerFrames] :
              feed = [t \in Symbols |-> IF t \in DOMAIN f THEN f[t] ELSE DefaultFeed[t]]
    /\ index_frame \in IndexFrames
    /\ universe = "All" /\ show_top10 = TRUE

\* runs that vary a few candidates freely, and the market index
InitCandidates ==
    /\ \E n \in 0..MaxFree :
         /\ \E prs \in [1..n -> Profiles] :
              files = [portfolio |-> PortfolioFile(1),
                       top100 |-> [j \in 1..n |-> Candidate(j, prs[j])]]
         /\ \E f \in [{Upper(CandidateNames[j]) : j \in 1..n} -> TickerFrames] :
              feed = [t \in Symbols |-> IF t \in DOMAIN f THEN f[t] ELSE DefaultFeed[t]]
    /\ index_frame \in IndexFrames
    /\ universe = "All" /\ show_top10 = TRUE

\* what the provider answers for the candidates of a long list, in turn
RankFrames ==
    <<FullSeries(DMA_WINDOW, 85, 100), FullSeries(DMA_WINDOW, 106, 100),
      FullSeries(DMA_WINDOW, 94, 100), FullSeries(DMA_WINDOW, 130, 100),
      FullSeries(DMA_WINDOW, 99, 100), FullSeries(DMA_WINDOW + 1, 96, 100),
      FullSeries(DMA_WINDOW, 91, 100), ShortSeries(DMA_WINDOW - 1, 85),
      FullSeries(DMA_WINDOW, 112, 100), FullSeries(DMA_WINDOW, 101, 100),
      FullSeries(DMA_WINDOW, 121, 100), FullSeries(DMA_WINDOW, 104, 100),
      FullSeries(DMA_WINDOW, 88, 100)>>

RankProfiles ==
    <<[growth_3y |-> 20, ai_exposure_score |-> 80],
      [growth_3y |-> 15, ai_exposure_score |-> 69],
      [growth_3y |-> 14, ai_exposure_score |-> 70],
      [growth_3y |-> 10, ai_exposure_score |-> 60]>>

\* every hc-th candidate is a healthcare company (none when hc = 0)
RankSector(j, hc) ==
    IF hc > 0 /\ j % hc = 0
      THEN (IF j % 2 = 0 THEN "Healthcare" ELSE "healthcare")
      ELSE "Technology"

RankCandidate(j, hc) ==
    LET pr == RankProfiles[(j % Len(RankProfiles)) + 1]
    IN  Candidate(j, [sector |-> RankSector(j, hc), growth_3y |-> pr.growth_3y,
                      ai_exposure_score |-> pr.ai_exposure_score])

\* runs over a long candidate list, varying the controls of the second tab
InitRanking ==
    /\ \E n \in (MaxCandidates - 2)..MaxCandidates, hc \in {0, 2, 3, 5}, seed \in 1..Len(RankFrames) :
         /\ files = [portfolio |-> PortfolioFile(0),
                     top100 |-> [j \in 1..n |-> RankCandidate(j, hc)]]
         /\ feed = [t \in Symbols |->
                      IF \E j \in 1..n : Upper(CandidateNames[j]) = t
                        THEN LET j == CHOOSE k \in 1..n : Upper(CandidateNames[k]) = t
                             IN  RankFrames[((j + seed) % Len(RankFrames)) + 1]
                        ELSE DefaultFeed[t]]
    /\ index_frame \in {EmptyFrame, FullSeries(DMA_WINDOW + 1, 113, 100)}
    /\ universe \in {"All", "AI Focus", "Healthcare Focus"}
    /\ show_top10 \in BOOLEAN

ScriptInit == ScriptStart /\ (InitPortfolio \/ InitCandidates \/ InitRanking)

(***************************************************************************)
(* Direct calls of the two scoring functions, on arguments of their own.   *)
(***************************************************************************)
MaxPrice == 140
MaxDma == 100
MaxDistPct == 12

Actions == {"HOLD CORE", "SELL PARTIAL", "SMALL BUY", "ACCUMULATE", "AGGRESSIVE BUY", "WAIT"}
GrowthValues == {0, 14, 15, 20}
ExposureValues == {0, 69, 70, 80}
\* the index at 0 (unavailable), 12% and 13% above its average
IndexDists == {Frac(0, 1), Frac(12, 100), Frac(13, 100)}

DecisionCalls ==
    {[fn |-> "csp_equivalent_decision", price |-> p, dma |-> m] :
        p \in 1..MaxPrice, m \in 1..MaxDma}

\* distances in steps of half a percent
ScoreCalls ==
    {[fn |-> "rotation_score", dist_pct |-> Frac(h, 2), action |-> a,
      growth |-> g, exposure |-> e, nasdaq_dist |-> nd] :
        h \in (0 - 2 * MaxDistPct)..(2 * MaxDistPct), a \in Actions,
        g \in GrowthValues, e \in ExposureValues, nd \in IndexDists}

CallInit ==
    /\ pc = "call" /\ i = 0
    /\ files = [portfolio |-> << >>, top100 |-> << >>]
    /\ feed = DefaultFeed /\ index_frame = NoFrame
    /\ universe = "All" /\ show_top10 = TRUE
    /\ portfolio = << >> /\ top100_df = << >> /\ nasdaq_dist = Frac(0, 1)
    /\ results = << >> /\ df_port = << >> /\ df_rot = << >> /\ calls = << >>
    /\ call \in DecisionCalls \cup ScoreCalls
    /\ ret = [fn |-> "none"]

(***************************************************************************)
(* The script, top to bottom.                                              *)
(***************************************************************************)
\* lines 92-94
LoadData ==
    /\ pc = "load"
    /\ portfolio' = load_csv(files.portfolio)
    /\ top100_df' = load_csv(files.top100)
    /\ nasdaq_dist' = fetch_nasdaq_dist(index_frame)
    /\ results' = << >>
    /\ i' = 1
    /\ pc' = "tab1"
    /\ UNCHANGED <<inputs, df_port, df_rot, calls, call, ret>>

\* lines 109-134: one pass of the portfolio loop
PortfolioLoop ==
    /\ pc = "tab1" /\ i <= Len(portfolio)
    /\ LET row  == portfolio[i]
           data == feed[row.ticker]
       IN  IF too_short(data)
             THEN UNCHANGED <<results, calls>>
             ELSE /\ results' = Append(results, portfolio_row(row, data, nasdaq_dist))
                  /\ calls' = Append(calls, [tab |-> 1, ticker |-> row.ticker,
                                             price |-> close_last(data),
                                             dma |-> rolling_mean_last(data)])
    /\ i' = i + 1
    /\ UNCHANGED <<inputs, pc, portfolio, top100_df, nasdaq_dist, df_port, df_rot, call, ret>>

\* lines 136-168: the portfolio table, then the controls of the second tab
PortfolioTable ==
    /\ pc = "tab1" /\ i > Len(portfolio)
    /\ df_port' = results
    /\ results' = << >>
    /\ i' = 1
    /\ pc' = "tab2"
    /\ UNCHANGED <<inputs, portfolio, top100_df, nasdaq_dist, df_rot, calls, call, ret>>

\* lines 185-218: one pass of the rotation loop
RotationLoop ==
    /\ pc = "tab2" /\ i <= Len(top100_df)
    /\ LET row  == top100_df[i]
           data == feed[row.ticker]
       IN  IF too_short(data)
             THEN UNCHANGED <<results, calls>>
             ELSE /\ results' = Append(results, rotation_row(row, data, nasdaq_dist))
                  /\ calls' = Append(calls, [tab |-> 2, ticker |-> row.ticker,
                                             price |-> close_last(data),
                                             dma |-> rolling_mean_last(data)])
    /\ i' = i + 1
    /\ UNCHANGED <<inputs, pc, portfolio, top100_df, nasdaq_dist, df_port, df_rot, call, ret>>

\* lines 220-230: pd.DataFrame([]) has no columns, so sorting it by
\* "Rotation Score" raises KeyError and the script stops there
RotationTable ==
    /\ pc = "tab2" /\ i > Len(top100_df)
    /\ IF results = << >>
         THEN pc' = "error" /\ UNCHANGED df_rot
         ELSE /\ \E sorted \in sort_values(results) :
                   df_rot' = rotation_table(sorted, universe, show_top10)
              /\ pc' = "caption"
    /\ UNCHANGED <<inputs, i, portfolio, top100_df, nasdaq_dist, results, df_port, calls, call, ret>>

\* line 249
Caption ==
    /\ pc = "caption"
    /\ pc' = "done"
    /\ UNCHANGED <<inputs, i, portfolio, top100_df, nasdaq_dist, results, df_port, df_rot, calls, call, ret>>

script == <<pc, i, portfolio, top100_df, nasdaq_dist, results, df_port, df_rot, calls>>

ApplyDecision ==
    /\ pc = "call" /\ call.fn = "csp_equivalent_decision" /\ ret.fn = "none"
    /\ ret' = [fn |-> call.fn, val |-> csp_equivalent_decision(Whole(call.price), Whole(call.dma))]
    /\ UNCHANGED <<inputs, script, call>>

ApplyScore ==
    /\ pc = "call" /\ call.fn = "rotation_score" /\ ret.fn = "none"
    /\ ret' = [fn |-> call.fn,
               val |-> rotation_score(call.dist_pct, call.action, call.growth,
                                      call.exposure, call.nasdaq_dist)]
    /\ UNCHANGED <<inputs, script, call>>

Next ==
    \/ ApplyDecision
    \/ ApplyScore
    \/ LoadData
    \/ PortfolioLoop
    \/ PortfolioTable
    \/ RotationLoop
    \/ RotationTable
    \/ Caption

Init == ScriptInit \/ CallInit

Spec == Init /\ [][Next]_vars

(***************************************************************************)
(* Properties.                                                             *)
(***************************************************************************)
DecisionReturned == pc = "call" /\ ret.fn = "csp_equivalent_decision"
ScoreReturned == pc = "call" /\ ret.fn = "rotation_score"

\* the seven rules as the decision table states them, first match first;
\* the result is <<action, sell fraction in hundredths>>
RuleTable(price, ma) ==
    LET d100 == (price - ma) * 100      \* distance * ma * 100
        abs100 == IF d100 < 0 THEN -d100 ELSE d100
    IN  IF d100 >= 30 * ma THEN <<"HOLD CORE", 0>>
        ELSE IF d100 >= 20 * ma THEN <<"SELL PARTIAL", 25>>
        ELSE IF d100 >= 15 * ma THEN <<"SELL PARTIAL", 25>>
        ELSE IF abs100 <= 3 * ma THEN <<"SMALL BUY", 0>>
        ELSE IF 92 * ma <= price * 100 /\ price * 100 <= 97 * ma THEN <<"ACCUMULATE", 0>>
        ELSE IF price * 100 < 90 * ma THEN <<"AGGRESSIVE BUY", 0>>
        ELSE <<"WAIT", 0>>

\* C1: for every price > 0 and moving average > 0 the decision is the pair of
\* the first rule of the seven-rule table that matches; the sell fraction lies
\* in [0,1] and is non-zero only for SELL PARTIAL.
C1_FirstMatchingRule ==
    DecisionReturned =>
        /\ <<ret.val.action, ret.val.sell_pct>> = RuleTable(call.price, call.dma)
        /\ ret.val.sell_pct \in 0..100
        /\ (ret.val.sell_pct # 0 => ret.val.action = "SELL PARTIAL")

\* a call exactly on the first threshold: distance 0.30 holds the core
C1_Witness ==
    /\ DecisionReturned
    /\ (call.price - call.dma) * 100 = 30 * call.dma
    /\ ret.val.action = "HOLD CORE"

NearAverage(price, ma) ==
    LET d100 == (price - ma) * 100
    IN  (IF d100 < 0 THEN -d100 ELSE d100) <= 3 * ma

InBuyZone(price, ma) == 92 * ma <= price * 100 /\ price * 100 <= 97 * ma

\* C7: where the near-average and the buy-zone conditions both hold the
\* decision is SMALL BUY, that happens only at price/average = 0.97, and
\* ACCUMULATE is returned exactly for ratios in [0.92, 0.97).
C7_NearAverageFirst ==
    DecisionReturned =>
        LET both == NearAverage(call.price, call.dma) /\ InBuyZone(call.price, call.dma)
        IN  /\ both => ret.val.action = "SMALL BUY"
            /\ both => call.price * 100 = 97 * call.dma
            /\ ret.val.action = "ACCUMULATE"
                 <=> (92 * call.dma <= call.price * 100 /\ call.price * 100 < 97 * call.dma)

C7_Witness ==
    /\ DecisionReturned
    /\ NearAverage(call.price, call.dma) /\ InBuyZone(call.price, call.dma)
    /\ ret.val.action = "SMALL BUY"

\* the sub-scores and the penalty as the scoring table states them
TableP(d) ==
    IF d.n <= -5 * d.d THEN 40
    ELSE IF d.n <= 0 THEN 30
    ELSE IF d.n <= 5 * d.d THEN 20
    ELSE IF d.n <= 10 * d.d THEN 10
    ELSE 0

TableA(a) ==
    IF a = "AGGRESSIVE BUY" THEN 25
    ELSE IF a = "ACCUMULATE" THEN 20
    ELSE IF a = "SMALL BUY" THEN 15
    ELSE IF a = "WAIT" THEN 5
    ELSE 0

TableG(g) == IF g >= 15 THEN 15 ELSE 5
TableE(e) == IF e >= 70 THEN 15 ELSE 5
\* the market is extended when the index is more than 0.12 above its average
TableM(nd) == IF nd.n * 100 > 12 * nd.d THEN 15 ELSE 0

TableSum(d, a, g, e, nd) == TableP(d) + TableA(a) + TableG(g) + TableE(e) - TableM(nd)

TableScore(d, a, g, e, nd) ==
    LET t == TableSum(d, a, g, e, nd)
    IN  IF t < 0 THEN 0 ELSE IF t > 100 THEN 100 ELSE t

\* C3: the rotation score is clamp(P + A + G + E - M, 0, 100) with the bands
\* of the scoring table; (-6 %, ACCUMULATE, growth 20, exposure 80, market
\* not extended) scores 90.
C3_ScoreFormula ==
    ScoreReturned =>
        /\ ret.val = TableScore(call.dist_pct, call.action, call.growth,
                                call.exposure, call.nasdaq_dist)
        /\ (/\ call.dist_pct = Frac(-12, 2) /\ call.action = "ACCUMULATE"
            /\ call.growth = 20 /\ call.exposure = 80
            /\ call.nasdaq_dist = Frac(0, 1)) => ret.val = 90

C3_Witness ==
    /\ ScoreReturned
    /\ call.dist_pct = Frac(-12, 2) /\ call.action = "ACCUMULATE"
    /\ call.growth = 20 /\ call.exposure = 80 /\ call.nasdaq_dist = Frac(0, 1)
    /\ ret.val = 90

\* the rotation rows the script holds: the list of the second loop and the table
RotationRows ==
    (IF pc \in {"tab2", "caption", "done", "error"}
       THEN {results[j] : j \in DOMAIN results} ELSE {})
      \cup {df_rot[j] : j \in DOMAIN df_rot}

\* C2: every rotation score, in a result row or returned for any combination
\* of arguments, is a whole number from 0 to 100.
C2_ScoreWithinBounds ==
    /\ \A r \in RotationRows : r.RotationScore \in 0..100
    /\ ScoreReturned => ret.val \in 0..100

\* a row whose sub-scores sum to 10 (no price or action points, low growth and
\* exposure) in an extended market: 10 - 15 is below 0 and the row holds 0
C2_Witness ==
    /\ pc = "done"
    /\ market_extended(nasdaq_dist)
    /\ \E j \in DOMAIN results, k \in DOMAIN top100_df :
         /\ results[j].Ticker = top100_df[k].ticker
         /\ results[j].Action = "HOLD CORE"
         /\ top100_df[k].growth_3y < 15 /\ top100_df[k].ai_exposure_score < 70
         /\ results[j].RotationScore = 0

\* the loops' positions
InTab2OrLater == pc \in {"tab2", "caption", "done", "error"}
AfterTab2Loop == pc \in {"caption", "done", "error"} \/ (pc = "tab2" /\ i > Len(top100_df))

EnoughHistory(t) == df_len(feed[t]) > 0 /\ df_len(feed[t]) >= 200

\* the tickers, in input order, of those of the first k rows that have enough history
KeptTickers(rows, k) ==
    LET kept == SelectSeq(SubSeq(rows, 1, k), LAMBDA r : EnoughHistory(r.ticker))
    IN  [j \in 1..Len(kept) |-> kept[j].ticker]

RowTickers(rows) == [j \in 1..Len(rows) |-> rows[j].Ticker]
CallTickers(tab) ==
    LET cs == SelectSeq(calls, LAMBDA c : c.tab = tab)
    IN  [j \in 1..Len(cs) |-> cs[j].ticker]

\* C4: in both loops the decision is invoked only for a ticker whose history
\* is non-empty and has at least 200 samples, a shorter history gives no row,
\* and the result list holds one row per ticker that is not skipped, in input
\* order.
C4_SkipShortHistories ==
    /\ \A j \in DOMAIN calls : EnoughHistory(calls[j].ticker)
    /\ pc = "tab1" =>
         /\ RowTickers(results) = KeptTickers(portfolio, i - 1)
         /\ CallTickers(1) = KeptTickers(portfolio, i - 1)
    /\ InTab2OrLater =>
         /\ RowTickers(df_port) = KeptTickers(portfolio, Len(portfolio))
         /\ CallTickers(1) = KeptTickers(portfolio, Len(portfolio))
    /\ pc = "tab2" =>
         /\ RowTickers(results) = KeptTickers(top100_df, i - 1)
         /\ CallTickers(2) = KeptTickers(top100_df, i - 1)
    /\ AfterTab2Loop =>
         /\ RowTickers(results) = KeptTickers(top100_df, Len(top100_df))
         /\ CallTickers(2) = KeptTickers(top100_df, Len(top100_df))

\* the rotation loop has ended with a candidate of 199 samples skipped, a
\* candidate of exactly 200 samples kept, and the portfolio loop has skipped
\* nothing
C4_Witness ==
    /\ AfterTab2Loop
    /\ \E j, k \in DOMAIN top100_df :
         /\ df_len(feed[top100_df[j].ticker]) = 199
         /\ df_len(feed[top100_df[k].ticker]) = 200
         /\ RowTickers(results) = <<top100_df[k].ticker>>
    /\ Len(df_port) = 1

HasSuffix(r) == Len(r.Reason) > 1
IsSell(a) == a \in {"SELL PARTIAL"}
IndexAbove12 == nasdaq_dist.n * 100 > 12 * nasdaq_dist.d

PortfolioRows ==
    IF pc = "tab1" THEN {results[j] : j \in DOMAIN results}
    ELSE {df_port[j] : j \in DOMAIN df_port}

ShareCount(t) ==
    LET j == CHOOSE k \in DOMAIN portfolio : portfolio[k].ticker = t
    IN  portfolio[j].shares

\* the decision on a ticker's own price and average, whatever the market
OwnDecision(t) ==
    csp_equivalent_decision(close_last(feed[t]), rolling_mean_last(feed[t]))

\* the annotation changes the reason only: action and sell size are the decision's
AnnotationIsStringOnly ==
    /\ \A r \in PortfolioRows :
         /\ r.Action = OwnDecision(r.Ticker).action
         /\ r.SharesToSell = ShareCount(r.Ticker) * OwnDecision(r.Ticker).sell_pct
         /\ r.Reason[1] = OwnDecision(r.Ticker).reason
    /\ \A r \in RotationRows :
         /\ r.Action = OwnDecision(r.Ticker).action
         /\ r.Reason[1] = OwnDecision(r.Ticker).reason

\* C5 as stated: in both loops the reason carries a market suffix exactly when
\* the index is more than 0.12 above its average and the action is a SELL
\* variant, and the annotation is string-only.
C5_SuffixOnlyOnSell ==
    /\ \A r \in PortfolioRows : HasSuffix(r) <=> (IndexAbove12 /\ IsSell(r.Action))
    /\ \A r \in RotationRows : HasSuffix(r) <=> (IndexAbove12 /\ IsSell(r.Action))
    /\ AnnotationIsStringOnly

\* C5 amended: the portfolio loop appends " | Market-wide extension" exactly
\* when the index is more than 0.12 above its average and the action is a SELL
\* variant; the rotation loop appends " | Market overheated" exactly when the
\* index is more than 0.12 above its average, whatever the action; in both the
\* annotation is string-only.
C5_SuffixPerLoop ==
    /\ \A r \in PortfolioRows :
         /\ HasSuffix(r) <=> (IndexAbove12 /\ IsSell(r.Action))
         /\ HasSuffix(r) => r.Reason = <<r.Reason[1], " | Market-wide extension">>
    /\ \A r \in RotationRows :
         /\ HasSuffix(r) <=> IndexAbove12
         /\ HasSuffix(r) => r.Reason = <<r.Reason[1], " | Market overheated">>
    /\ AnnotationIsStringOnly

\* an extended market, a portfolio row that is not a SELL and so has no suffix,
\* and a rotation row that is not a SELL and has one
C5_Witness ==
    /\ pc = "done" /\ IndexAbove12
    /\ \E r \in PortfolioRows : ~IsSell(r.Action) /\ ~HasSuffix(r)
    /\ \E r \in RotationRows : ~IsSell(r.Action) /\ HasSuffix(r)

IndexUnavailable ==
    \/ index_frame = NoFrame
    \/ (index_frame # NoFrame /\ df_len(index_frame) < 200)

CandidateOf(t) ==
    top100_df[CHOOSE k \in DOMAIN top100_df : top100_df[k].ticker = t]

\* the score of a row with no market penalty
UnpenalisedScore(r) ==
    LET c == CandidateOf(r.Ticker)
        t == r.Ticker
        d == FracMulInt(FracDiv(FracSub(close_last(feed[t]), rolling_mean_last(feed[t])),
                                rolling_mean_last(feed[t])), 100)
        sum == TableP(d) + TableA(r.Action) + TableG(c.growth_3y) + TableE(c.ai_exposure_score)
    IN  IF sum < 0 THEN 0 ELSE IF sum > 100 THEN 100 ELSE sum

\* C6: when the index history is missing, empty or shorter than 200 samples,
\* fetch_nasdaq_dist yields 0.0, no row of either loop gets a market suffix
\* and no rotation score has the 15-point penalty subtracted.
C6_UnavailableIndexIsNeutral ==
    (IndexUnavailable /\ pc \notin {"load", "call"}) =>
        /\ nasdaq_dist = Frac(0, 1)
        /\ \A r \in PortfolioRows : ~HasSuffix(r)
        /\ \A r \in RotationRows : ~HasSuffix(r) /\ r.RotationScore = UnpenalisedScore(r)

\* the index has 199 samples, the script has finished, the portfolio holds a
\* SELL PARTIAL row and the rotation list a row
C6_Witness ==
    /\ pc = "done"
    /\ index_frame # NoFrame /\ df_len(index_frame) = 199
    /\ \E r \in PortfolioRows : IsSell(r.Action)
    /\ RotationRows # {}

IsBuy(a) == a \in {"SMALL BUY", "ACCUMULATE", "AGGRESSIVE BUY"}

\* C8 as stated: of two candidates scored in the same run with the same growth
\* and exposure sub-scores, one whose action is a buy scores strictly higher
\* than one whose action is WAIT.
C8_BuyBeatsWait ==
    InTab2OrLater =>
        \A j, k \in DOMAIN results :
            LET b == results[j]
                w == results[k]
            IN  (/\ IsBuy(b.Action) /\ w.Action = "WAIT"
                 /\ TableG(CandidateOf(b.Ticker).growth_3y) = TableG(CandidateOf(w.Ticker).growth_3y)
                 /\ TableE(CandidateOf(b.Ticker).ai_exposure_score)
                      = TableE(CandidateOf(w.Ticker).ai_exposure_score))
                => b.RotationScore > w.RotationScore

TableShown == pc \in {"caption", "done"}

\* the rows of a universe, as the universes are described
InView(r, u) ==
    IF u = "Healthcare Focus" THEN Lower(r.Sector) = "healthcare"
    ELSE IF u = "AI Focus" THEN Lower(r.Sector) # "healthcare"
    ELSE TRUE

ViewRows(u) == {results[j] : j \in {k \in DOMAIN results : InView(results[k], u)}}
ShownRows == {df_rot[j] : j \in DOMAIN df_rot}

\* C9: the table shown is in non-increasing score order, holds only rows of
\* the selected universe (the two focus views partition All), and the filter
\* comes before the truncation: with the top-10 box ticked the table holds the
\* min(10, n) highest-scoring rows of the universe, otherwise all n.
C9_RankedTable ==
    TableShown =>
        LET n == Cardinality(ViewRows(universe))
        IN  /\ \A j \in 1..(Len(df_rot) - 1) :
                   df_rot[j].RotationScore >= df_rot[j + 1].RotationScore
            /\ ShownRows \subseteq ViewRows(universe)
            /\ Cardinality(ShownRows) = Len(df_rot)
            /\ Len(df_rot) = (IF show_top10 THEN Min2(10, n) ELSE n)
            /\ \A r \in ViewRows(universe) \ ShownRows :
                   \A t \in ShownRows : t.RotationScore >= r.RotationScore
            /\ ViewRows("All") = {results[j] : j \in DOMAIN results}
            /\ ViewRows("AI Focus") \cup ViewRows("Healthcare Focus") = ViewRows("All")
            /\ ViewRows("AI Focus") \cap ViewRows("Healthcare Focus") = {}

\* a focus view under the top-10 box that shows a row which 10 or more rows
\* of the whole list outscore: truncating first would have lost it
C9_Witness ==
    /\ TableShown /\ show_top10 /\ universe # "All"
    /\ \E r \in ShownRows :
         Cardinality({j \in DOMAIN results : results[j].RotationScore > r.RotationScore}) >= 10

\* C10 as stated: whatever the price fetches return, the script reaches its
\* end and never stops in an error.
C10_NoErrorState == pc # "error"

=============================================================================
